---- MODULE Spec2Model ----
(***************************************************************************)
(* Model of src/main.py: the AmbedkarQASystem class (setup_system,         *)
(* load_and_process_documents, ask_question) and the main() driver with    *)
(* its interaction loop, run as a sequence of processes that share one     *)
(* document file and one persisted index directory.                        *)
(*                                                                         *)
(* The langchain / Chroma / Ollama objects are outside the repository.     *)
(* Each call into them is modelled by its outcome (returns or raises),     *)
(* chosen by the environment; the text splitter is represented by the      *)
(* chunk sequence it yields for a document.                                *)
(***************************************************************************)
EXTENDS Integers, Sequences, FiniteSets, TLC

VARIABLES
    run,            \* number of the current process (1 = first run)
    doc,            \* speech.txt: missing, unreadable, or readable with its chunks
    persist,        \* ./chroma_db on disk
    start_persist,  \* ./chroma_db as it was when the current process started
    pc,             \* position of main(): "start", "loop", "done"; "api" = direct use
    self,           \* the AmbedkarQASystem instance: qa_chain, vector_store
    exit_cause,     \* why main() returned ("none" while it runs)
    log,            \* calls made by the current process
    last,           \* the most recent call of ask_question / loop iteration
    prev            \* summary of the previous process

vars == <<run, doc, persist, start_persist, pc, self, exit_cause, log, last, prev>>

-----------------------------------------------------------------------------
(* Bounds of the model *)

MaxChunks == 2      \* chunks in a document
MaxRuns == 2        \* consecutive processes
MaxIterations == 1  \* iterations of the interaction loop the log counts
MaxCalls == 2       \* method calls on an instance used directly

-----------------------------------------------------------------------------
(* Values *)

\* Texts are sequences of one-character strings.
ChunkTexts == { <<"c">>, <<"l","a","w">> }

RECURSIVE SeqsUpTo(_, _)
SeqsUpTo(S, n) ==
    IF n = 0 THEN { <<>> }
    ELSE LET shorter == SeqsUpTo(S, n - 1)
         IN  shorter \cup { Append(s, x) : s \in shorter, x \in S }

\* A readable document is represented by the chunks the splitter yields for it;
\* the empty file yields no chunk.
Documents == SeqsUpTo(ChunkTexts, MaxChunks)
DocStates ==
    { [state |-> "missing", chunks |-> <<>>], [state |-> "unreadable", chunks |-> <<>>] }
    \cup { [state |-> "ok", chunks |-> d] : d \in Documents }

\* The persisted location: absent, a regular file, or a directory that is
\* empty ("none"), holds only files that are not an index ("foreign"), or holds
\* a Chroma store ("store") with its entries.
PersistStates ==
    { [kind |-> "absent", files |-> "none", entries |-> <<>>],
      [kind |-> "file", files |-> "none", entries |-> <<>>],
      [kind |-> "dir", files |-> "none", entries |-> <<>>],
      [kind |-> "dir", files |-> "foreign", entries |-> <<>>] }
    \cup { [kind |-> "dir", files |-> "store", entries |-> e] : e \in Documents }

\* The persisted location holds an index with at least one entry.
ContainsNonEmptyIndex(p) == p.kind = "dir" /\ p.files = "store" /\ p.entries # <<>>

\* Lines the user may type at the prompt.
\* A character is a one-character string; a character that has no escape in
\* a string is written by its code point ("U+00A0" is the no-break space).
Lines ==
    { <<>>, <<"U+00A0", "\f">>,
      <<" ", "Q", "\t">>, <<"E","x","i","t">>,
      <<"U+3000","Q","U","I","T","\r">>,
      <<"q","q">>, <<"q","u","i","t","s"," ">> }

\* What input() does at the prompt: returns a line or raises.
Inputs ==
    { [kind |-> "line", line |-> l] : l \in Lines }
    \cup { [kind |-> k, line |-> <<>>] : k \in {"EOFError", "KeyboardInterrupt"} }

\* What the chain call does: returns, or raises at one of its steps.
ChainFaults == {"none", "embed_error", "generate_error", "interrupt"}

\* Where a keyboard interrupt may arrive during ask_question: nowhere, at a
\* statement before the chain call (the warning of the guard included), while
\* the answer is printed, after the answer is printed, or while the exception
\* handler prints.
AskInterrupts == {"none", "before", "answer", "after", "handler"}

\* What a call of ask_question meets: what the chain call does, where a
\* keyboard interrupt arrives outside the chain call, and whether the message
\* being printed when it arrives (the warning of the guard, the error of the
\* handler) was written out before the interrupt was raised.
AskFaults ==
    { f \in [chain : ChainFaults, interrupt : AskInterrupts, printed : BOOLEAN] :
        /\ \/ f.interrupt = "none"
           \/ f.interrupt \in {"before", "answer", "after"} /\ f.chain = "none"
           \/ f.interrupt = "handler" /\ f.chain \in {"embed_error", "generate_error"}
        /\ f.printed => f.interrupt \in {"before", "handler"} }

NoFault == [chain |-> "none", interrupt |-> "none", printed |-> FALSE]

\* What check_ollama meets: the model listed, not listed (or the command
\* failing), or a keyboard interrupt while the command runs or while
\* check_ollama prints (its handler catches Exception only).
OllamaChecks == {"available", "unavailable", "KeyboardInterrupt"}

\* Where a keyboard interrupt may arrive in main() outside check_ollama,
\* setup_system and the loop: nowhere, during display_welcome, while main()
\* prints that the document is missing or that setup failed, or during the
\* banner and the example questions that precede the loop.
MainInterrupts == {"none", "welcome", "message", "banner"}

\* Where a keyboard interrupt may arrive in an iteration of the loop outside
\* input() and ask_question: after input() has returned and before the
\* iteration breaks, continues or calls ask_question (lines 220 to 232), and
\* while an exception handler of the loop prints.
LoopInterrupts == [after_input : BOOLEAN, handler : BOOLEAN]

\* The steps of setup_system during which a keyboard interrupt may arrive:
\* the embeddings (and the statements before them), the probe of the
\* location, the first statement of the branch taken, the loading of the
\* document, the statement that announces the build, the store (opened or
\* built), the chain construction, the statements after self.qa_chain is
\* assigned, and the exception handler.
InterruptPoints ==
    {"none", "embeddings", "probe", "branch", "document", "create", "store", "chain",
     "ready", "handler"}

\* What a build that does not complete leaves at the location: what was
\* there, or a store holding the chunks written so far.
LeftBehind == {"unchanged", "store"}

\* What a call of setup_system meets. raises: the library call that raises
\* an Exception ("none": none does). interrupt: where a keyboard interrupt
\* arrives. embedded, left and written: for a store step that does not
\* complete, the embedding calls it has made, what it leaves at the location
\* and how many of the embedded chunks are in the store it leaves. Only the
\* first event of a call matters, the later ones are not reached.
SetupEnvs ==
    { e \in [raises : {"none", "embeddings", "store", "chain"},
             interrupt : InterruptPoints,
             embedded : 0..MaxChunks, left : LeftBehind, written : 0..MaxChunks] :
        /\ e.interrupt \notin {"none", "handler"} => e.raises = "none"
        /\ (e.raises # "store" /\ e.interrupt # "store") =>
               e.embedded = 0 /\ e.left = "unchanged"
        /\ e.written <= e.embedded
        /\ e.left = "unchanged" => e.written = 0 }

-----------------------------------------------------------------------------
(* str.strip() and str.lower() *)

\* The characters str.strip() removes: those for which str.isspace() holds.
Whitespace ==
    { " ", "\t", "\n", "\r", "\f", "U+000B", "U+001C", "U+001D", "U+001E", "U+001F",
      "U+0085", "U+00A0", "U+1680", "U+2000", "U+2001", "U+2002", "U+2003", "U+2004",
      "U+2005", "U+2006", "U+2007", "U+2008", "U+2009", "U+200A", "U+2028", "U+2029",
      "U+202F", "U+205F", "U+3000" }

RECURSIVE lstrip(_)
lstrip(s) ==
    IF s = <<>> THEN <<>>
    ELSE IF Head(s) \in Whitespace THEN lstrip(Tail(s)) ELSE s

RECURSIVE rstrip(_)
rstrip(s) ==
    IF s = <<>> THEN <<>>
    ELSE IF s[Len(s)] \in Whitespace THEN rstrip(SubSeq(s, 1, Len(s) - 1)) ELSE s

strip(s) == rstrip(lstrip(s))

UpperCase ==
    << "A", "B", "C", "D", "E", "F", "G", "H", "I", "J", "K", "L", "M",
       "N", "O", "P", "Q", "R", "S", "T", "U", "V", "W", "X", "Y", "Z" >>

LowerCase ==
    << "a", "b", "c", "d", "e", "f", "g", "h", "i", "j", "k", "l", "m",
       "n", "o", "p", "q", "r", "s", "t", "u", "v", "w", "x", "y", "z" >>

\* str.lower() on one character of the model's alphabet (ASCII letters and
\* whitespace).
lower_char(c) ==
    IF \E i \in DOMAIN UpperCase : UpperCase[i] = c
    THEN LowerCase[CHOOSE i \in DOMAIN UpperCase : UpperCase[i] = c]
    ELSE c

lower(s) == [i \in 1..Len(s) |-> lower_char(s[i])]

QuitWords == { <<"q","u","i","t">>, <<"e","x","i","t">>, <<"q">> }

-----------------------------------------------------------------------------
(* Embedding Provider and Vector Index (external capabilities, from their
   contracts) *)

\* A deterministic embedding: a text is mapped to one number.
embed(text) == Len(text)

\* Similarity of two vectors: larger is closer.
similarity(u, v) == IF u >= v THEN v - u ELSE u - v

\* Variant: an entry is ranked before the entries it ties with.
RECURSIVE insert_ranked_ties_first(_, _, _, _)
insert_ranked_ties_first(entries, qvec, ranking, i) ==
    IF ranking = <<>> THEN <<i>>
    ELSE IF similarity(embed(entries[i]), qvec)
               >= similarity(embed(entries[Head(ranking)]), qvec)
    THEN <<i>> \o ranking
    ELSE <<Head(ranking)>> \o insert_ranked_ties_first(entries, qvec, Tail(ranking), i)

\* The ranking (positions of entries, most similar first) with position i
\* put in: before the first position that is less similar to qvec.
RECURSIVE insert_ranked(_, _, _, _)
insert_ranked(entries, qvec, ranking, i) ==
    IF ranking = <<>> THEN <<i>>
    ELSE IF similarity(embed(entries[i]), qvec)
               > similarity(embed(entries[Head(ranking)]), qvec)
    THEN <<i>> \o ranking
    ELSE <<Head(ranking)>> \o insert_ranked(entries, qvec, Tail(ranking), i)

\* The ranking of the first n entries, taken in insertion order.
RECURSIVE rank(_, _, _)
rank(entries, qvec, n) ==
    IF n = 0 THEN <<>>
    ELSE insert_ranked(entries, qvec, rank(entries, qvec, n - 1), n)

\* Vector Index search: the k most similar entries, most similar first; all
\* of them when there are fewer than k.
similarity_search(entries, qvec, k) ==
    LET ranking == rank(entries, qvec, Len(entries))
        n == IF k <= Len(entries) THEN k ELSE Len(entries)
    IN  [j \in 1..n |-> entries[ranking[j]]]

\* Variant: the index is constructed in memory and the location is left as
\* it was.
build_in_memory(p, entries) == p

\* Vector Index build: what the location holds once the index has been
\* constructed from the entries and persisted.
build(p, entries) == [kind |-> "dir", files |-> "store", entries |-> entries]

\* Vector Index load: the entries of the persisted state, reloaded.
load(p) == p.entries

-----------------------------------------------------------------------------
(* class AmbedkarQASystem *)

Unset == [set |-> FALSE, origin |-> "none", k |-> 0, entries |-> <<>>]

\* __init__: qa_chain and vector_store start as None.
NewSystem == [qa_chain |-> Unset, vector_store |-> Unset]

\* search_kwargs={"k": 1}
retriever_k == 1

\* load_and_process_documents: the chunks, or None when loading raises.
load_and_process_documents(d) ==
    IF d.state = "ok" THEN [none |-> FALSE, list |-> d.chunks]
    ELSE [none |-> TRUE, list |-> <<>>]

\* `not chunks`: None or an empty list.
not_chunks(chunks) == chunks.none \/ chunks.list = <<>>

\* Variant: the directory listing is not looked at, so an existing store is
\* never found.
probe_without_listing(p) == IF p.kind = "file" THEN "raise" ELSE "build"

\* os.path.exists(persist_directory) and os.listdir(persist_directory):
\* "load" when truthy, "build" when falsy, "raise" when listdir raises.
probe(p) ==
    IF p.kind = "absent" THEN "build"
    ELSE IF p.kind = "file" THEN "raise"
    ELSE IF p.files # "none" THEN "load"
    ELSE "build"

NoCalls == [probes |-> 0, branch |-> "none", doc_reads |-> 0, chunk_embeds |-> 0,
            builds |-> 0, loads |-> 0, failed |-> "none"]

\* The exception handler of setup_system, and its early return: return False.
\* why: the step that failed.
setup_failed(s, p, t, why) ==
    [ret |-> FALSE, raised |-> "none", self |-> s, persist |-> p,
     calls |-> [t EXCEPT !.failed = why]]

\* A KeyboardInterrupt is not an Exception: the handler of setup_system does
\* not catch it, the call returns nothing and the interrupt reaches the caller.
setup_interrupted(s, p, t) ==
    [ret |-> FALSE, raised |-> "KeyboardInterrupt", self |-> s, persist |-> p,
     calls |-> t]

\* The tail of setup_system: the LLM, the prompt and the RetrievalQA chain,
\* then the message that the system is ready and `return True`.
setup_chain(s, p, t, env) ==
    LET ready == [s EXCEPT !.qa_chain =
                     [set |-> TRUE, origin |-> s.vector_store.origin,
                      k |-> retriever_k, entries |-> s.vector_store.entries]]
    IN  IF env.interrupt = "chain" THEN setup_interrupted(s, p, t)
        ELSE IF env.raises = "chain" THEN setup_failed(s, p, t, "chain")
        ELSE IF env.interrupt = "ready" THEN setup_interrupted(ready, p, t)
        ELSE [ret |-> TRUE, raised |-> "none", self |-> ready, persist |-> p,
              calls |-> t]

\* The load branch: Chroma(persist_directory=..., embedding_function=...).
setup_load(s, p, t0, env) ==
    LET t1 == [t0 EXCEPT !.branch = "load"]
        t == [t1 EXCEPT !.loads = @ + 1]
    IN  IF env.interrupt = "branch" THEN setup_interrupted(s, p, t1)
        ELSE IF env.interrupt = "store" THEN setup_interrupted(s, p, t)
        ELSE IF env.raises = "store" THEN setup_failed(s, p, t, "load")
        ELSE setup_chain([s EXCEPT !.vector_store =
                             [set |-> TRUE, origin |-> "loaded", k |-> 0,
                              entries |-> load(p)]],
                         p, t, env)

\* The build branch: load_and_process_documents, then Chroma.from_documents.
\* A build that does not complete has made between none and all of its
\* embedding calls, and leaves the location as it was or holding a store
\* with some of the embedded chunks. The handler of
\* load_and_process_documents catches Exception only, so an interrupt while
\* the document is loaded leaves setup_system too.
setup_build(s, d, p, t0, env) ==
    LET chunks == load_and_process_documents(d)
        tb == [t0 EXCEPT !.branch = "build"]
        t1 == [tb EXCEPT !.doc_reads = @ + 1]
        embedded == IF env.embedded > Len(chunks.list)
                    THEN Len(chunks.list) ELSE env.embedded
        written == IF env.written > embedded THEN embedded ELSE env.written
        left == IF env.left = "store"
                THEN build(p, SubSeq(chunks.list, 1, written))
                ELSE p
        t2 == [t1 EXCEPT !.builds = @ + 1, !.chunk_embeds = @ + embedded]
    IN  IF env.interrupt = "branch" THEN setup_interrupted(s, p, tb)
        ELSE IF env.interrupt = "document" THEN setup_interrupted(s, p, t1)
        ELSE IF not_chunks(chunks) THEN setup_failed(s, p, t1, "document")
        ELSE IF env.interrupt = "create" THEN setup_interrupted(s, p, t1)
        ELSE IF env.interrupt = "store" THEN setup_interrupted(s, left, t2)
        ELSE IF env.raises = "store" THEN setup_failed(s, left, t2, "build")
        ELSE setup_chain([s EXCEPT !.vector_store =
                             [set |-> TRUE, origin |-> "built", k |-> 0,
                              entries |-> chunks.list]],
                         build(p, chunks.list),
                         [t1 EXCEPT !.builds = @ + 1,
                                    !.chunk_embeds = @ + Len(chunks.list)],
                         env)

\* The statements of setup_system inside its try block (and the print
\* before it).
setup_steps(s, d, p, env) ==
    IF env.interrupt = "embeddings" THEN setup_interrupted(s, p, NoCalls)
    ELSE IF env.raises = "embeddings" THEN setup_failed(s, p, NoCalls, "embeddings")
    ELSE LET t == [NoCalls EXCEPT !.probes = 1]
             branch == probe(p)
         IN  IF env.interrupt = "probe" THEN setup_interrupted(s, p, t)
             ELSE IF branch = "raise" THEN setup_failed(s, p, t, "listdir")
             ELSE IF branch = "load" THEN setup_load(s, p, t, env)
             ELSE setup_build(s, d, p, t, env)

\* setup_system. An Exception raised in the try block is handled by printing
\* a message and returning False; a keyboard interrupt that arrives while the
\* handler prints leaves setup_system. (The early return for an empty or
\* unreadable document runs no handler of setup_system.)
setup_system(s, d, p, env) ==
    LET r == setup_steps(s, d, p, env)
    IN  IF /\ env.interrupt = "handler"
           /\ r.raised = "none"
           /\ r.calls.failed \notin {"none", "document"}
        THEN setup_interrupted(r.self, r.persist, r.calls)
        ELSE r

-----------------------------------------------------------------------------
(* ask_question *)

NoAnswer == [given |-> FALSE, context |-> <<>>, question |-> <<>>]

\* self.qa_chain({"query": question}): embed the question, search the index,
\* fill the prompt with the retrieved context and the question, generate.
\* raised: "none", "Exception" or "KeyboardInterrupt".
chain_call(chain, question, fault) ==
    IF fault = "embed_error"
    THEN [raised |-> "Exception", query_embeds |-> 1, searches |-> 0,
          generations |-> 0, result |-> NoAnswer]
    ELSE IF fault = "generate_error"
    THEN [raised |-> "Exception", query_embeds |-> 1, searches |-> 1,
          generations |-> 1, result |-> NoAnswer]
    ELSE IF fault = "interrupt"
    THEN [raised |-> "KeyboardInterrupt", query_embeds |-> 1, searches |-> 1,
          generations |-> 1, result |-> NoAnswer]
    ELSE [raised |-> "none", query_embeds |-> 1, searches |-> 1, generations |-> 1,
          result |-> [given |-> TRUE,
                      context |-> similarity_search(chain.entries, embed(question), chain.k),
                      question |-> question]]

\* ask_question returns, or raises, without having called the chain.
\* ask_question has no handler for a keyboard interrupt: one that arrives at
\* a statement before the chain call (the warning of the guard included)
\* leaves it, with the warning written out or not.
ask_without_call(s, fault, report) ==
    [self |-> s,
     raised |-> IF fault.interrupt = "before" THEN "KeyboardInterrupt" ELSE "none",
     report |-> IF fault.interrupt = "before" /\ ~fault.printed THEN "none" ELSE report,
     chain_calls |-> 0, query_embeds |-> 0, searches |-> 0, generations |-> 0,
     answer |-> NoAnswer]

\* What ask_question raises after a chain call that did r: the handler
\* catches an Exception, unless a keyboard interrupt arrives while it prints;
\* after a chain call that returned, a keyboard interrupt may arrive while
\* the answer is printed or after it.
ask_raised(r, fault) ==
    IF r.raised = "Exception"
    THEN (IF fault.interrupt = "handler" THEN "KeyboardInterrupt" ELSE "none")
    ELSE IF r.raised = "none" /\ fault.interrupt \in {"answer", "after"}
    THEN "KeyboardInterrupt"
    ELSE r.raised

\* What ask_question reports after a chain call that did r: the error the
\* handler prints, written out or not when an interrupt arrives meanwhile.
ask_report(r, fault) ==
    IF r.raised = "Exception" /\ (fault.interrupt # "handler" \/ fault.printed)
    THEN "error" ELSE "none"

\* The answer ask_question prints after a chain call that did r.
ask_answer(r, fault) ==
    IF fault.interrupt = "answer" THEN NoAnswer ELSE r.result

\* Variant: the exception handler tears the chain down.
ask_question_reset_on_error(s, question, fault) ==
    IF ~s.qa_chain.set THEN ask_without_call(s, fault, "uninitialized")
    ELSE IF fault.interrupt = "before" THEN ask_without_call(s, fault, "none")
    ELSE LET r == chain_call(s.qa_chain, question, fault.chain)
         IN  [self |-> IF r.raised = "Exception" THEN [s EXCEPT !.qa_chain = Unset] ELSE s,
              raised |-> ask_raised(r, fault),
              report |-> ask_report(r, fault),
              chain_calls |-> 1,
              query_embeds |-> r.query_embeds, searches |-> r.searches,
              generations |-> r.generations,
              answer |-> ask_answer(r, fault)]

\* Variant: an uninitialized system sets itself up when first asked.
ask_question_lazy_setup(s, question, fault) ==
    LET r == setup_system(s, doc, persist,
                 [raises |-> "none", interrupt |-> "none", embedded |-> 0,
                  left |-> "unchanged", written |-> 0])
        s1 == IF s.qa_chain.set THEN s ELSE r.self
    IN  IF ~s1.qa_chain.set THEN ask_without_call(s1, fault, "uninitialized")
        ELSE IF fault.interrupt = "before" THEN ask_without_call(s1, fault, "none")
        ELSE LET c == chain_call(s1.qa_chain, question, fault.chain)
             IN  [self |-> s1,
                  raised |-> ask_raised(c, fault),
                  report |-> ask_report(c, fault),
                  chain_calls |-> 1,
                  query_embeds |-> c.query_embeds, searches |-> c.searches,
                  generations |-> c.generations,
                  answer |-> ask_answer(c, fault)]

\* Variant: every question reopens the persisted store.
ask_question_reload(s, question, fault) ==
    IF ~s.qa_chain.set THEN ask_without_call(s, fault, "uninitialized")
    ELSE IF fault.interrupt = "before" THEN ask_without_call(s, fault, "none")
    ELSE LET r == chain_call(s.qa_chain, question, fault.chain)
         IN  [self |-> [s EXCEPT !.vector_store =
                           [set |-> TRUE, origin |-> "loaded", k |-> 0,
                            entries |-> persist.entries]],
              raised |-> ask_raised(r, fault),
              report |-> ask_report(r, fault),
              chain_calls |-> 1,
              query_embeds |-> r.query_embeds, searches |-> r.searches,
              generations |-> r.generations,
              answer |-> ask_answer(r, fault)]

\* Variant: a chain call that raises is made a second time.
ask_question_retry(s, question, fault) ==
    IF ~s.qa_chain.set THEN ask_without_call(s, fault, "uninitialized")
    ELSE IF fault.interrupt = "before" THEN ask_without_call(s, fault, "none")
    ELSE LET r == chain_call(s.qa_chain, question, fault.chain)
             again == r.raised = "Exception"
             r2 == chain_call(s.qa_chain, question, "none")
         IN  [self |-> s,
              raised |-> IF again THEN "none" ELSE ask_raised(r, fault),
              report |-> "none",
              chain_calls |-> IF again THEN 2 ELSE 1,
              query_embeds |-> r.query_embeds + (IF again THEN r2.query_embeds ELSE 0),
              searches |-> r.searches + (IF again THEN r2.searches ELSE 0),
              generations |-> r.generations + (IF again THEN r2.generations ELSE 0),
              answer |-> IF again THEN r2.result ELSE ask_answer(r, fault)]

\* ask_question. report: "none", "uninitialized" (the warning of the guard) or
\* "error" (the message of the exception handler). raised: "none" when the
\* call returns, "KeyboardInterrupt" when an interrupt leaves it.
ask_question(s, question, fault) ==
    IF ~s.qa_chain.set THEN ask_without_call(s, fault, "uninitialized")
    ELSE IF fault.interrupt = "before" THEN ask_without_call(s, fault, "none")
    ELSE LET r == chain_call(s.qa_chain, question, fault.chain)
         IN  [self |-> s,
              raised |-> ask_raised(r, fault),
              report |-> ask_report(r, fault),
              chain_calls |-> 1,
              query_embeds |-> r.query_embeds, searches |-> r.searches,
              generations |-> r.generations,
              answer |-> ask_answer(r, fault)]

-----------------------------------------------------------------------------
(* main() *)

NotAsked == [self |-> NewSystem, raised |-> "none", report |-> "none", chain_calls |-> 0,
             query_embeds |-> 0, searches |-> 0, generations |-> 0, answer |-> NoAnswer]

\* Variant: the comparison without lower().
is_quit_case_sensitive(question) == question \in QuitWords

\* question.lower() in ['quit', 'exit', 'q']
is_quit(question) == lower(question) \in QuitWords

\* `except KeyboardInterrupt:` of the loop: print the goodbye and break. An
\* interrupt that arrives while the handler prints is raised inside the
\* handler and leaves main() uncaught.
loop_interrupted(irq, asked, question, a) ==
    [next |-> "done", event |-> "interrupt",
     cause |-> IF irq.handler THEN "uncaught_interrupt" ELSE "interrupt",
     asked |-> asked, question |-> question, ask |-> a]

\* One iteration of `while True`. next: "loop" or "done"; event: what the
\* iteration did; cause: how the loop was left ("none": it was not).
main_loop_iteration(s, inp, fault, irq) ==
    LET none == [NotAsked EXCEPT !.self = s]
    IN  IF inp.kind = "KeyboardInterrupt"
        THEN loop_interrupted(irq, FALSE, <<>>, none)
        ELSE IF inp.kind = "EOFError"
        THEN (IF irq.handler
              THEN [next |-> "done", event |-> "unexpected",
                    cause |-> "uncaught_interrupt", asked |-> FALSE,
                    question |-> <<>>, ask |-> none]
              ELSE [next |-> "loop", event |-> "unexpected", cause |-> "none",
                    asked |-> FALSE, question |-> <<>>, ask |-> none])
        ELSE LET question == strip(inp.line)
             IN  IF irq.after_input
                 THEN loop_interrupted(irq, FALSE, question, none)
                 ELSE IF is_quit(question)
                 THEN [next |-> "done", event |-> "quit", cause |-> "quit",
                       asked |-> FALSE, question |-> question, ask |-> none]
                 ELSE IF question = <<>>
                 THEN [next |-> "loop", event |-> "empty", cause |-> "none",
                       asked |-> FALSE, question |-> question, ask |-> none]
                 ELSE LET a == ask_question(s, question, fault)
                      IN  IF a.raised = "KeyboardInterrupt"
                          THEN loop_interrupted(irq, TRUE, question, a)
                          ELSE [next |-> "loop", event |-> "asked", cause |-> "none",
                                asked |-> TRUE, question |-> question, ask |-> a]

\* `if not qa_system.setup_system(): return`
enters_loop(ret) == ret

\* main() ends before setup_system is called.
main_ends(p, cause) ==
    [next |-> "done", cause |-> cause, called |-> FALSE,
     setup |-> setup_failed(NewSystem, p, NoCalls, "none")]

\* main() up to the interaction loop: the welcome, the prerequisite checks,
\* the construction of the system, setup_system, the banner and the example
\* questions. main() has no handler around them: a KeyboardInterrupt that
\* arrives there, or comes out of check_ollama or setup_system, ends main()
\* uncaught.
main_startup(d, p, ollama, env, irq) ==
    IF irq = "welcome" THEN main_ends(p, "uncaught_interrupt")
    ELSE IF d.state = "missing"
    THEN main_ends(p, IF irq = "message" THEN "uncaught_interrupt" ELSE "no_document")
    ELSE IF ollama = "KeyboardInterrupt" THEN main_ends(p, "uncaught_interrupt")
    ELSE IF ollama = "unavailable" THEN main_ends(p, "no_ollama")
    ELSE LET r == setup_system(NewSystem, d, p, env)
         IN  IF r.raised = "KeyboardInterrupt"
             THEN [next |-> "done", cause |-> "uncaught_interrupt", called |-> TRUE,
                   setup |-> r]
             ELSE IF enters_loop(r.ret)
             THEN (IF irq = "banner"
                   THEN [next |-> "done", cause |-> "uncaught_interrupt",
                         called |-> TRUE, setup |-> r]
                   ELSE [next |-> "loop", cause |-> "none", called |-> TRUE,
                         setup |-> r])
             ELSE [next |-> "done",
                   cause |-> IF irq = "message" THEN "uncaught_interrupt"
                             ELSE "setup_failed",
                   called |-> TRUE, setup |-> r]

-----------------------------------------------------------------------------
(* State machine *)

NoLog == [setup_calls |-> 0, ret |-> "none", failed |-> "none", probes |-> 0,
          branch |-> "none",
          doc_reads |-> 0, chunk_embeds |-> 0, builds |-> 0, loads |-> 0,
          direct_loads |-> 0, iterations |-> 0, asked |-> 0, chain_calls |-> 0, query_embeds |-> 0,
          searches |-> 0, generations |-> 0, answers |-> 0]

NoLast == [valid |-> FALSE, kind |-> "none", line |-> <<>>, event |-> "none",
           asked |-> FALSE, question |-> <<>>, fault |-> NoFault, report |-> "none",
           raised |-> "none", chain_calls |-> 0, answer |-> NoAnswer,
           self_before |-> NewSystem]

NoPrev == [ran |-> FALSE, fresh |-> FALSE, branch |-> "none", chunk_embeds |-> 0,
           built |-> FALSE]

\* The log after a call of setup_system that returned r.
log_setup(l, r) ==
    [l EXCEPT !.setup_calls = @ + 1,
              !.ret = IF r.raised = "KeyboardInterrupt" THEN "raised"
                      ELSE IF r.ret THEN "true" ELSE "false",
              !.failed = r.calls.failed,
              !.probes = @ + r.calls.probes,
              !.branch = r.calls.branch,
              !.doc_reads = @ + r.calls.doc_reads,
              !.chunk_embeds = @ + r.calls.chunk_embeds,
              !.builds = @ + r.calls.builds,
              !.loads = @ + r.calls.loads]

\* The log after a call of ask_question that returned a.
log_ask(l, a) ==
    [l EXCEPT !.asked = @ + 1,
              !.chain_calls = @ + a.chain_calls,
              !.query_embeds = @ + a.query_embeds,
              !.searches = @ + a.searches,
              !.generations = @ + a.generations,
              !.answers = @ + (IF a.answer.given THEN 1 ELSE 0)]

Init ==
    /\ run = 1
    /\ doc \in DocStates
    /\ persist \in PersistStates
    /\ start_persist = persist
    /\ pc = "start"
    /\ self = NewSystem
    /\ exit_cause = "none"
    /\ log = NoLog
    /\ last = NoLast
    /\ prev = NoPrev

\* main() from its first line to the interaction loop.
MainStart ==
    /\ pc = "start"
    /\ \E ollama \in OllamaChecks, env \in SetupEnvs, irq \in MainInterrupts :
         \E m \in {main_startup(doc, persist, ollama, env, irq)} :
             /\ pc' = m.next
             /\ exit_cause' = m.cause
             /\ self' = m.setup.self
             /\ persist' = m.setup.persist
             /\ log' = IF m.called THEN log_setup(log, m.setup) ELSE log
    /\ UNCHANGED <<run, doc, start_persist, last, prev>>

\* The line is handed to ask_question.
IsQuestion(inp) ==
    inp.kind = "line" /\ strip(inp.line) # <<>> /\ ~is_quit(strip(inp.line))

\* One iteration of the interaction loop: a prompt, and what follows from it.
\* The loop has no bound; the log counts the first MaxIterations iterations.
LoopIteration ==
    /\ pc = "loop"
    /\ \E inp \in Inputs, irq \in LoopInterrupts :
       \E fault \in (IF IsQuestion(inp) /\ ~irq.after_input
                     THEN AskFaults ELSE {NoFault}) :
         \E it \in {main_loop_iteration(self, inp, fault, irq)} :
             /\ pc' = it.next
             /\ exit_cause' = it.cause
             /\ self' = it.ask.self
             /\ log' = IF log.iterations < MaxIterations
                       THEN [(IF it.asked THEN log_ask(log, it.ask) ELSE log)
                                EXCEPT !.iterations = @ + 1]
                       ELSE log
             /\ last' = [valid |-> TRUE, kind |-> inp.kind, line |-> inp.line,
                         event |-> it.event, asked |-> it.asked,
                         question |-> it.question,
                         fault |-> IF it.asked THEN fault ELSE NoFault,
                         report |-> it.ask.report, raised |-> it.ask.raised,
                         chain_calls |-> it.ask.chain_calls, answer |-> it.ask.answer,
                         self_before |-> self]
    /\ UNCHANGED <<run, doc, persist, start_persist, prev>>

Next == MainStart \/ LoopIteration

Spec == Init /\ [][Next]_vars

-----------------------------------------------------------------------------
(* Consecutive processes on one persisted location that starts out absent or
   as an empty directory *)

Fresh(p) == p.kind = "absent" \/ (p.kind = "dir" /\ p.files = "none")

InitRuns == Init /\ Fresh(persist)

\* The process has ended; the program is started again on the same document
\* and the same persisted location.
Restart ==
    /\ pc = "done"
    /\ run < MaxRuns
    /\ run' = run + 1
    /\ start_persist' = persist
    /\ pc' = "start"
    /\ self' = NewSystem
    /\ exit_cause' = "none"
    /\ prev' = [ran |-> TRUE, fresh |-> Fresh(start_persist), branch |-> log.branch,
                chunk_embeds |-> log.chunk_embeds,
                built |-> self.vector_store.set /\ self.vector_store.origin = "built"]
    /\ log' = NoLog
    /\ last' = NoLast
    /\ UNCHANGED <<doc, persist>>

NextRuns == MainStart \/ LoopIteration \/ Restart

SpecRuns == InitRuns /\ [][NextRuns]_vars

-----------------------------------------------------------------------------
(* The class used directly: its methods called in any order on one instance *)

\* The questions main() can hand to ask_question.
Questions == { q \in { strip(l) : l \in Lines } : q # <<>> /\ ~is_quit(q) }

\* A store at the location holds no entry or was built from the document.
InitAPI ==
    /\ run = 1
    /\ doc \in DocStates
    /\ persist \in { p \in PersistStates :
                       p.files = "store" => p.entries \in {<<>>, doc.chunks} }
    /\ start_persist = persist
    /\ pc = "api"
    /\ self = NewSystem
    /\ exit_cause = "none"
    /\ log = NoLog
    /\ last = NoLast
    /\ prev = NoPrev

ApiSetup ==
    /\ pc = "api"
    /\ log.setup_calls + log.asked + log.direct_loads < MaxCalls
    /\ \E env \in SetupEnvs :
         \E r \in {setup_system(self, doc, persist, env)} :
             /\ self' = r.self
             /\ persist' = r.persist
             /\ log' = log_setup(log, r)
    /\ last' = NoLast
    /\ UNCHANGED <<run, doc, start_persist, pc, exit_cause, prev>>

ApiAsk ==
    /\ pc = "api"
    /\ log.setup_calls + log.asked + log.direct_loads < MaxCalls
    /\ \E question \in Questions, fault \in AskFaults :
         \E a \in {ask_question(self, question, fault)} :
             /\ self' = a.self
             /\ log' = log_ask(log, a)
             /\ last' = [valid |-> TRUE, kind |-> "call", line |-> question,
                         event |-> "asked", asked |-> TRUE, question |-> question,
                         fault |-> IF self.qa_chain.set \/ fault.interrupt = "before"
                                   THEN fault ELSE NoFault,
                         report |-> a.report, raised |-> a.raised,
                         chain_calls |-> a.chain_calls, answer |-> a.answer,
                         self_before |-> self]
    /\ UNCHANGED <<run, doc, persist, start_persist, pc, exit_cause, prev>>

\* load_and_process_documents called directly: the chunks (or None) go to the
\* caller, the instance and the persisted location are left as they are.
ApiLoad ==
    /\ pc = "api"
    /\ log.setup_calls + log.asked + log.direct_loads < MaxCalls
    /\ \E chunks \in {load_and_process_documents(doc)} :
         log' = [log EXCEPT !.direct_loads = @ + 1, !.doc_reads = @ + 1]
    /\ last' = NoLast
    /\ UNCHANGED <<run, doc, persist, start_persist, pc, self, exit_cause, prev>>

NextAPI == ApiSetup \/ ApiAsk \/ ApiLoad

SpecAPI == InitAPI /\ [][NextAPI]_vars

-----------------------------------------------------------------------------
(* Properties *)

\* The location is a directory with at least one file in it.
NonEmptyDirectory(p) == p.kind = "dir" /\ p.files # "none"

\* The startup state of the process.
StartupState ==
    IF ~self.vector_store.set THEN "uninitialized"
    ELSE IF self.vector_store.origin = "loaded" THEN "loaded-from-disk"
    ELSE "freshly-built"

\* C1 (as claimed): once setup_system has taken its build-or-load decision,
\* it has probed once, and it is on the load branch, without reading the
\* document or embedding a chunk, if the location contains a non-empty index,
\* and on the build branch in every other case.
C1_BuildUnlessNonEmptyIndex ==
    log.branch # "none" =>
        /\ log.probes = 1
        /\ IF ContainsNonEmptyIndex(start_persist)
           THEN log.branch = "load" /\ log.doc_reads = 0 /\ log.chunk_embeds = 0
           ELSE log.branch = "build" /\ log.loads = 0

\* C2: when the previous process started on an absent or empty location and
\* built the index (embedding at least one chunk), setup_system in the next
\* process embeds no chunk, does not read the document, builds nothing, and
\* the branch it takes after its probe, when it reaches one, is the load
\* branch; when it returns True the index it serves is the one built by the
\* previous process.
C2_SecondRunLoads ==
    (prev.ran /\ prev.fresh /\ prev.built /\ prev.chunk_embeds > 0) =>
        /\ log.chunk_embeds = 0
        /\ log.doc_reads = 0
        /\ log.builds = 0
        /\ log.probes <= 1
        /\ log.branch \in {"none", "load"}
        /\ log.ret = "true" =>
               /\ log.branch = "load" /\ log.loads = 1
               /\ self.vector_store.origin = "loaded"
               /\ self.vector_store.entries = doc.chunks
        /\ persist = start_persist

C2_Witness ==
    /\ run = 2
    /\ prev.fresh /\ prev.built /\ prev.branch = "build" /\ prev.chunk_embeds = 2
    /\ log.branch = "load" /\ log.loads = 1 /\ log.ret = "true"
    /\ self.vector_store.origin = "loaded" /\ Len(self.vector_store.entries) = 2

\* C3: a question whose chain call raises an error leaves qa_chain and
\* vector_store as they were and gets no answer after that one call; unless
\* a keyboard interrupt arrives while the handler prints, the error is
\* reported, ask_question returns normally and the loop goes on; and a
\* question whose chain call does not fail gets its answer, also after an
\* earlier question failed.
C3_PerQuestionIsolation ==
    /\ (last.valid /\ last.asked
            /\ last.fault.chain \in {"embed_error", "generate_error"}) =>
           /\ ~last.answer.given
           /\ self = last.self_before
           /\ self.qa_chain.set /\ self.vector_store.set
           /\ last.chain_calls = 1
           /\ IF last.fault.interrupt = "none"
              THEN last.report = "error" /\ last.raised = "none" /\ pc = "loop"
              ELSE /\ last.raised = "KeyboardInterrupt" /\ pc = "done"
                   /\ exit_cause \in {"interrupt", "uncaught_interrupt"}
                   /\ last.report = (IF last.fault.printed THEN "error" ELSE "none")
    /\ (last.valid /\ last.asked /\ last.fault = NoFault) =>
           /\ last.answer.given
           /\ last.answer.question = last.question
           /\ last.report = "none"
           /\ pc = "loop"

C3_Witness ==
    /\ last.valid /\ last.asked /\ last.fault = NoFault /\ last.answer.given
    /\ log.iterations = 1 /\ log.asked = 1 /\ log.chain_calls = 1 /\ log.answers = 0
    /\ pc = "loop"

\* C4 (as claimed, for the locations that hold no index with entries): with
\* an empty document, a call of setup_system that returns returns False,
\* qa_chain stays unset, the loop is not entered and no question is answered.
C4_EmptyDocumentAlwaysFatal ==
    (doc.state = "ok" /\ doc.chunks = <<>> /\ log.ret \in {"true", "false"}
        /\ ~ContainsNonEmptyIndex(start_persist)) =>
        /\ log.ret = "false"
        /\ ~self.qa_chain.set
        /\ pc = "done"
        /\ log.answers = 0

\* C5 (as claimed, for the locations that hold no index with entries and the
\* startups no keyboard interrupt ends): when the document is missing or
\* cannot be read, startup ends with qa_chain unset and without entering the
\* loop, setup_system has not returned True, and no question is asked.
C5_SetupFailureFatal ==
    (doc.state \in {"missing", "unreadable"} /\ pc # "start"
        /\ exit_cause # "uncaught_interrupt" /\ log.ret # "raised"
        /\ ~ContainsNonEmptyIndex(start_persist)) =>
        /\ log.ret # "true"
        /\ ~self.qa_chain.set
        /\ pc = "done"
        /\ log.iterations = 0 /\ log.asked = 0 /\ log.chain_calls = 0

\* C6: ask_question on a system whose qa_chain is unset (setup_system not
\* called, or called and failed) makes no chain, embedding, search or
\* generation call, gives no answer and leaves qa_chain and vector_store as
\* they were; the failure is the warning that the system is not initialized,
\* after which ask_question returns; a keyboard interrupt that arrives at the
\* guard leaves ask_question, with the warning written out or not.
C6_AskBeforeInitialization ==
    /\ (last.valid /\ ~last.self_before.qa_chain.set) =>
           /\ last.chain_calls = 0
           /\ ~last.answer.given
           /\ self = last.self_before
           /\ IF last.fault.interrupt = "before"
              THEN /\ last.raised = "KeyboardInterrupt"
                   /\ last.report
                          = (IF last.fault.printed THEN "uninitialized" ELSE "none")
              ELSE last.raised = "none" /\ last.report = "uninitialized"
    /\ ~self.qa_chain.set =>
           /\ log.chain_calls = 0 /\ log.query_embeds = 0 /\ log.searches = 0
           /\ log.generations = 0 /\ log.answers = 0

C6_Witness ==
    /\ last.valid /\ last.report = "uninitialized"
    /\ log.setup_calls = 1 /\ log.ret = "false" /\ log.asked = 1
    /\ ~self.qa_chain.set

\* C7: within a process the startup state leaves "uninitialized" at most once
\* and never changes afterwards; at most one build and at most one load are
\* made; and an iteration of the loop (ask_question included) changes neither
\* qa_chain, vector_store nor the persisted location, and builds and loads
\* nothing.
C7_StartupDecidedOnce ==
    /\ [](log.setup_calls <= 1 /\ log.builds + log.loads <= 1 /\ log.probes <= 1)
    /\ [][StartupState # "uninitialized" => StartupState' = StartupState]_vars
    /\ [][pc = "loop" =>
            /\ self' = self
            /\ persist' = persist
            /\ log'.builds = log.builds /\ log'.loads = log.loads
            /\ log'.setup_calls = log.setup_calls]_vars

C7_Witness ==
    /\ StartupState = "freshly-built" /\ log.builds = 1 /\ log.loads = 0
    /\ log.iterations = 1 /\ log.asked = 0
    /\ last.valid /\ last.asked /\ last.answer.given /\ pc = "loop"
    /\ persist.entries = self.vector_store.entries

\* C8: the chain is invoked at most once per question and the build or load
\* at most once per setup; a chain call that fails is not made again: it is
\* reported for that question after that single call (unless a keyboard
\* interrupt arrives before the handler has written its message), and a
\* build or load that fails ends setup_system after that single attempt
\* without success.
C8_NoRetries ==
    /\ last.valid => last.chain_calls <= 1
    /\ log.chain_calls <= log.asked
    /\ log.query_embeds <= log.asked
    /\ log.generations <= log.asked
    /\ log.builds + log.loads <= log.setup_calls
    /\ (last.valid /\ last.fault.chain \in {"embed_error", "generate_error"}) =>
           /\ last.chain_calls = 1
           /\ ~last.answer.given
           /\ (last.fault.interrupt = "none" \/ last.fault.printed) =>
                  last.report = "error"
    /\ log.failed \in {"build", "load"} =>
           /\ log.builds + log.loads = 1
           /\ log.ret \in {"false", "raised"}
           /\ ~self.vector_store.set /\ ~self.qa_chain.set

C8_Witness ==
    /\ last.valid /\ last.fault.chain = "embed_error" /\ last.chain_calls = 1
    /\ last.report = "error"
    /\ log.iterations = 1 /\ log.asked = 1 /\ log.answers = 1

\* C9: the context of every answer holds min(1, index size) chunks, and the
\* one it holds is the stored chunk most similar to the question, the
\* earliest inserted one on a tie.
C9_TopOne ==
    (last.valid /\ last.answer.given) =>
        LET entries == self.vector_store.entries
            context == last.answer.context
            q == embed(last.question)
        IN  /\ Len(context) <= 1
            /\ Len(context) = (IF Len(entries) >= 1 THEN 1 ELSE 0)
            /\ Len(context) = 1 =>
                   \E i \in DOMAIN entries :
                       /\ context[1] = entries[i]
                       /\ \A j \in DOMAIN entries :
                              /\ similarity(embed(entries[i]), q)
                                     >= similarity(embed(entries[j]), q)
                              /\ (similarity(embed(entries[i]), q)
                                     = similarity(embed(entries[j]), q)) => i <= j

C9_Witness ==
    /\ last.valid /\ last.answer.given
    /\ Len(self.vector_store.entries) = 2
    /\ self.vector_store.entries[1] # self.vector_store.entries[2]
    /\ similarity(embed(self.vector_store.entries[1]), embed(last.question))
           = similarity(embed(self.vector_store.entries[2]), embed(last.question))
    /\ last.answer.context = <<self.vector_store.entries[1]>>

\* C10: the loop is left only by a quit command ('quit', 'exit' or 'q' after
\* trimming and lower-casing) or by a keyboard interrupt (caught by the loop,
\* or arriving while one of its handlers prints), however many iterations
\* have gone before; an exception raised by reading the input is reported and
\* the loop goes on; a quit command is never asked as a question and always
\* ends the loop; an empty or whitespace-only line never reaches
\* ask_question, and the loop goes on after it unless a keyboard interrupt
\* arrives.
C10_LoopExits ==
    /\ (pc = "done" /\ last.valid) =>
           \/ /\ exit_cause = "quit"
              /\ last.event = "quit"
              /\ last.kind = "line"
              /\ lower(strip(last.line)) \in QuitWords
              /\ ~last.asked
           \/ /\ exit_cause = "interrupt"
              /\ last.event = "interrupt"
              /\ \/ last.kind = "KeyboardInterrupt"
                 \/ last.asked /\ last.raised = "KeyboardInterrupt"
                 \/ last.kind = "line" /\ ~last.asked
           \/ /\ exit_cause = "uncaught_interrupt"
              /\ last.event \in {"interrupt", "unexpected"}
    /\ (pc = "loop" /\ last.valid) =>
           /\ exit_cause = "none"
           /\ last.event \in {"asked", "empty", "unexpected"}
           /\ last.raised = "none"
    /\ (last.valid /\ last.kind = "EOFError") =>
           /\ last.event = "unexpected" /\ ~last.asked
           /\ pc = "loop" \/ exit_cause = "uncaught_interrupt"
    /\ (last.valid /\ last.event = "unexpected" /\ pc = "done") =>
           exit_cause = "uncaught_interrupt"
    /\ (last.valid /\ last.kind = "line" /\ lower(strip(last.line)) \in QuitWords) =>
           pc = "done" /\ ~last.asked
    /\ (last.valid /\ last.line \in { <<" ", "Q", "\t">>, <<"E","x","i","t">>,
                                       <<"U+3000","Q","U","I","T","\r">> }) =>
           pc = "done" /\ ~last.asked
           /\ (last.event = "quit" <=> exit_cause = "quit")
    /\ (last.valid /\ last.kind = "line" /\ strip(last.line) = <<>>) =>
           /\ ~last.asked
           /\ \/ pc = "loop" /\ last.event = "empty"
              \/ pc = "done" /\ last.event = "interrupt"
    /\ (last.valid /\ last.line \in { <<>>, <<"U+00A0", "\f">> }
            /\ last.kind = "line") =>
           ~last.asked /\ last.event \in {"empty", "interrupt"}
    /\ (last.valid /\ last.asked) =>
           last.kind = "line" /\ strip(last.line) # <<>>
           /\ lower(strip(last.line)) \notin QuitWords
    /\ (last.valid /\ last.kind = "line" /\ ~last.asked /\ strip(last.line) # <<>>
            /\ lower(strip(last.line)) \notin QuitWords) =>
           pc = "done" /\ last.event = "interrupt"

C10_Witness ==
    /\ last.valid /\ last.kind = "EOFError" /\ last.event = "unexpected"
    /\ pc = "loop" /\ log.iterations = 1 /\ log.asked = 1

====
